---- MODULE Spec2Model ----
(***************************************************************************)
(* EcoWatt device, Milestone 5: boot-loop guard, validation sequencer,     *)
(* commit gate (lib/boot_validator) and the SPIFFS event log               *)
(* (lib/event_logger), driven by setup() of src/main.cpp.                  *)
(*                                                                         *)
(* Durable state: the NVS namespace "boot" (prefs), the OTA data of the    *)
(* two application slots (running image, boot target, image states) and    *)
(* the log file.  Every action is one call of a function of the firmware   *)
(* or one stretch of setup() between two points where the device can       *)
(* restart.                                                                *)
(***************************************************************************)
EXTENDS Integers, Sequences, FiniteSets, TLC

VARIABLES
    prefs,       \* NVS namespace "boot": a function from the stored keys to their values
    running,     \* slot of the image that is executing
    bootTarget,  \* slot the bootloader starts at the next reset
    trust,       \* image state of each slot, as esp_ota_get_state_partition reports it
    fs,          \* SPIFFS partition: "ok", "unformatted" or "dead"
    logFile,     \* /event_log.json: [kind, events]
    pc,          \* position of the control thread in setup()/loop()
    last,        \* what the last call did: its name, result, events handed to log_event,
                 \* and whether it called esp_ota_set_boot_partition / ESP.restart
    streak,      \* completed check_boot_loop() calls since boot_count was last absent or reset
    completed    \* a boot since boot_count was last absent or reset ran setup() to the end
                 \* and had an upload succeed (it called commit_firmware_if_pending())

vars == <<prefs, running, bootTarget, trust, fs, logFile, pc, last, streak, completed>>

----------------------------------------------------------------------------
(* Bounds of the model *)

\* boot_count is an int that only grows while rollbacks fail: boots stop at this count
MaxBoot == 4
\* the appended log is capped at this many records in the guards of the callers
MaxLog == 3
\* millis() at the time validate_boot_partition() runs is drawn from 0..MaxMillis
MaxMillis == 1
\* the stage argument of a mark_validation_checkpoint() call is drawn from -1..MaxStage
MaxStage == 4
\* direct log_event() calls stop when the log holds this many records
MaxRecords == 12
\* the longest message handed to log_event(), in bytes
MaxMessageLen == 60000
\* in SpecLogDeep, log_event() calls stop when the log holds this many records
MaxDeepRecords == 25

(* Program constants *)

\* if (boot_count >= 3)
BOOT_LOOP_THRESHOLD == 3
\* EVENT_LOG_MAX_SIZE_BYTES (50 KB)
EVENT_LOG_MAX_SIZE_BYTES == 51200
\* if (targetCount < 5) targetCount = 5
MIN_KEPT_EVENTS == 5

----------------------------------------------------------------------------
(* Preferences (NVS) *)

\* prefs.getInt(key, def) / prefs.getULong(key, def)
GetInt(p, key, def) == IF key \in DOMAIN p THEN p[key] ELSE def

\* prefs.putInt(key, v) / prefs.putULong(key, v)
PutInt(p, key, v) == [k \in (DOMAIN p) \cup {key} |-> IF k = key THEN v ELSE p[k]]

NoPrefs == [k \in {} |-> 0]

BootCount == GetInt(prefs, "boot_count", 0)
ValStage == GetInt(prefs, "val_stage", -1)

----------------------------------------------------------------------------
(* Partition manager (esp_ota_ops) *)

Slots == {"app0", "app1"}

\* esp_ota_img_states_t: VALID, PENDING_VERIFY, NEW, INVALID, ABORTED, UNDEFINED;
\* "Unreadable" stands for esp_ota_get_state_partition() != ESP_OK
TrustStates == {"Trusted", "PendingVerification", "Fresh", "Rejected", "Aborted",
                "Unknown", "Unreadable"}

\* esp_ota_get_next_update_partition(NULL): the other application slot (the partition
\* table of a device that takes updates has two, so the call does not return NULL)
GetNextUpdatePartition(r) == IF r = "app0" THEN "app1" ELSE "app0"

\* esp_ota_get_state_partition(running, &ota_state) == ESP_OK
StateReadable(t, r) == t[r] # "Unreadable"

----------------------------------------------------------------------------
(* Event log on SPIFFS *)

MissingFile == [kind |-> "missing", events |-> <<>>]
CorruptFile == [kind |-> "corrupt", events |-> <<>>]
\* file.println("["); file.println("]");
BlankFile == [kind |-> "blank", events |-> <<>>]
\* serializeJsonPretty(doc, file)
JsonFile(ev) == [kind |-> "json", events |-> ev]

\* bytes of one record as serializeJsonPretty writes it: ts, lvl, msg, and ctx when non-empty
RecordBytes(e) == IF e.msg = "null" THEN 4 ELSE 70 + e.len + (IF e.ctx THEN 14 ELSE 0)

RECURSIVE SumBytes(_)
SumBytes(ev) == IF ev = <<>> THEN 0 ELSE RecordBytes(Head(ev)) + 4 + SumBytes(Tail(ev))

\* file.size(): "[\r\n]\r\n" is 6 bytes, "[]" is 2, a pretty array is its records and brackets
FileBytes(f) ==
    CASE f.kind = "missing" -> 0
      [] f.kind = "corrupt" -> 1
      [] f.kind = "blank" -> 6
      [] OTHER -> IF f.events = <<>> THEN 2 ELSE SumBytes(f.events) + 2

\* get_log_file_size()
GetLogFileSize(f) == IF f.kind = "missing" THEN 0 ELSE FileBytes(f)

\* deserializeJson(doc, fileContent) succeeds
Parses(f) == f.kind \in {"blank", "json"}

\* int targetCount of cleanup_old_events() for a log of n records that is over the bound
TargetCount(n) == IF n \div 2 < MIN_KEPT_EVENTS THEN MIN_KEPT_EVENTS ELSE n \div 2

\* newEvents of cleanup_old_events(): events[startIndex .. originalCount - 1], where an
\* index below 0 reads a null element, which add() stores as null
NewEvents(ev, targetCount) ==
    LET startIndex == Len(ev) - targetCount
    IN  [i \in 1..targetCount |->
           IF startIndex + i >= 1 THEN ev[startIndex + i]
           ELSE [msg |-> "null", ctx |-> FALSE, len |-> 0]]

\* variant of CleanupOldEvents: no floor on the number of records kept
CleanupOldEventsNoFloor(f, wOk) ==
    IF f.kind = "missing" \/ ~Parses(f) THEN f
    ELSE IF FileBytes(f) > EVENT_LOG_MAX_SIZE_BYTES /\ wOk
         THEN JsonFile(NewEvents(f.events, Len(f.events) \div 2))
         ELSE f

\* variant of CleanupOldEvents: the log is rewritten whatever its size
CleanupOldEventsRewrites(f, wOk) ==
    IF f.kind = "missing" \/ ~Parses(f) THEN f
    ELSE IF ~wOk THEN f
    ELSE IF FileBytes(f) > EVENT_LOG_MAX_SIZE_BYTES
         THEN JsonFile(NewEvents(f.events, TargetCount(Len(f.events))))
         ELSE JsonFile(f.events)

\* cleanup_old_events(): the file afterwards (wOk: the file opens for writing)
CleanupOldEvents(f, wOk) ==
    IF f.kind = "missing" \/ ~Parses(f) THEN f
    ELSE IF FileBytes(f) > EVENT_LOG_MAX_SIZE_BYTES /\ wOk
         THEN JsonFile(NewEvents(f.events, TargetCount(Len(f.events))))
         ELSE f

\* cleanup_old_events(): the result; false when the file does not open for reading,
\* does not parse, or is over the bound and does not open for writing
CleanupOk(f, wOk) ==
    /\ f.kind # "missing"
    /\ Parses(f)
    /\ FileBytes(f) > EVENT_LOG_MAX_SIZE_BYTES => wOk

\* read_all_events(): the content of the file, "[]" when it is missing
ReadAllEvents(f) == IF f.kind = "missing" THEN JsonFile(<<>>) ELSE f

\* get_event_count(): 0 for a file that is missing or does not parse
GetEventCount(f) == IF f.kind = "missing" \/ ~Parses(f) THEN 0 ELSE Len(f.events)

\* variant of LogEvent: the new record is put in front of the stored ones
LogEventPrepends(fsys, f, e, wOk) ==
    IF fsys # "ok" \/ f.kind = "missing" THEN [file |-> f, ok |-> FALSE]
    ELSE IF ~Parses(f) THEN [file |-> IF wOk THEN BlankFile ELSE f, ok |-> FALSE]
    ELSE IF ~wOk THEN [file |-> f, ok |-> FALSE]
    ELSE LET written == JsonFile(<<e>> \o f.events)
         IN  [file |-> IF GetLogFileSize(written) > EVENT_LOG_MAX_SIZE_BYTES
                       THEN CleanupOldEvents(written, wOk) ELSE written,
              ok |-> TRUE]

\* variant of LogEvent: a log that does not parse is left as it is
LogEventKeepsCorrupt(fsys, f, e, wOk) ==
    IF fsys # "ok" \/ f.kind = "missing" \/ ~Parses(f) \/ ~wOk
    THEN [file |-> f, ok |-> FALSE]
    ELSE LET written == JsonFile(Append(f.events, e))
         IN  [file |-> IF GetLogFileSize(written) > EVENT_LOG_MAX_SIZE_BYTES
                       THEN CleanupOldEvents(written, wOk) ELSE written,
              ok |-> TRUE]

\* log_event(message, context): [file |-> the file afterwards, ok |-> the result]
LogEvent(fsys, f, e, wOk) ==
    IF fsys # "ok" THEN [file |-> f, ok |-> FALSE]
    ELSE IF f.kind = "missing" THEN [file |-> f, ok |-> FALSE]
    ELSE IF ~Parses(f) THEN [file |-> IF wOk THEN BlankFile ELSE f, ok |-> FALSE]
    ELSE IF ~wOk THEN [file |-> f, ok |-> FALSE]
    ELSE LET written == JsonFile(Append(f.events, e))
         IN  [file |-> IF GetLogFileSize(written) > EVENT_LOG_MAX_SIZE_BYTES
                       THEN CleanupOldEvents(written, wOk) ELSE written,
              ok |-> TRUE]

\* init_event_logger(): [fs, file, ok] afterwards; SPIFFS.begin(true) formats a
\* partition that does not mount
InitEventLogger(fsys, f, wOk) ==
    IF fsys = "dead" THEN [fs |-> fsys, file |-> f, ok |-> FALSE]
    ELSE LET found == IF fsys = "unformatted" THEN MissingFile ELSE f
         IN  IF found.kind = "missing"
             THEN IF wOk THEN [fs |-> "ok", file |-> BlankFile, ok |-> TRUE]
                  ELSE [fs |-> "ok", file |-> found, ok |-> FALSE]
             ELSE [fs |-> "ok",
                   file |-> IF GetLogFileSize(found) > EVENT_LOG_MAX_SIZE_BYTES
                            THEN CleanupOldEvents(found, wOk) ELSE found,
                   ok |-> TRUE]

\* clear_all_events(): [file, ok] afterwards; the old file is removed before the new
\* one is opened
ClearAllEvents(fsys, f, wOk) ==
    IF fsys # "ok" THEN [file |-> f, ok |-> FALSE]
    ELSE IF wOk THEN [file |-> BlankFile, ok |-> TRUE]
    ELSE [file |-> MissingFile, ok |-> FALSE]

\* the records the boot validator and setup() hand to log_event
Event(m, hasCtx) == [msg |-> m, ctx |-> hasCtx, len |-> 20]

----------------------------------------------------------------------------
(* Boot validator: what each function does to the durable state *)

\* what a call reports back to the properties: its name, its result, the messages it
\* handed to log_event(), the outcome of the partition operation it requested
\* ("none", "ok" or "failed"), whether it ended in ESP.restart(), and its argument
Did(name, result, events, outcome, restarted) ==
    [op |-> name, ret |-> result, emitted |-> events, ext |-> outcome,
     restart |-> restarted, arg |-> 0]

\* the same for a call that takes an integer argument
DidWith(name, argument) ==
    [Did(name, TRUE, <<>>, "none", FALSE) EXCEPT !.arg = argument]

Outcome(ok) == IF ok THEN "ok" ELSE "failed"

\* variant of MarkCheckpoint: the stage is stored without looking at the stored one
MarkCheckpointAlways(p, stage) == PutInt(p, "val_stage", stage)

\* variant of MarkCheckpoint: the stored stage never goes down
MarkCheckpointMonotonic(p, stage) ==
    IF GetInt(p, "val_stage", -1) >= 0 /\ stage >= GetInt(p, "val_stage", -1)
    THEN PutInt(p, "val_stage", stage)
    ELSE p

\* mark_validation_checkpoint(stage): the namespace afterwards
MarkCheckpoint(p, stage) ==
    IF GetInt(p, "val_stage", -1) >= 0 THEN PutInt(p, "val_stage", stage) ELSE p

\* variant of ValidatePrefs: validation starts whatever the image state is
ValidatePrefsAnyState(p, t, r, now) ==
    PutInt(PutInt(p, "val_start", now), "val_stage", 0)

\* validate_boot_partition(): the namespace afterwards, millis() being now
ValidatePrefs(p, t, r, now) ==
    IF StateReadable(t, r) /\ t[r] = "PendingVerification"
    THEN PutInt(PutInt(p, "val_start", now), "val_stage", 0)
    ELSE p

\* commit_firmware_if_pending(): the state is readable and is ESP_OTA_IMG_PENDING_VERIFY
CommitPending(t, r) == StateReadable(t, r) /\ t[r] = "PendingVerification"

\* variant of CommitPrefs: the validation stage is left as it was
CommitPrefsKeepsStage(p, pending, markOk) ==
    IF pending /\ markOk THEN PutInt(p, "boot_count", 0) ELSE p

\* variant of CommitPrefs: the counters are reset before the result of marking is known
CommitPrefsBeforeResult(p, pending, markOk) ==
    IF pending THEN PutInt(PutInt(p, "boot_count", 0), "val_stage", -1) ELSE p

\* variant of CommitPrefs: the image state is not consulted
CommitPrefsAnyState(p, pending, markOk) ==
    IF markOk THEN PutInt(PutInt(p, "boot_count", 0), "val_stage", -1) ELSE p

\* commit_firmware_if_pending(): the namespace afterwards; markOk is
\* esp_ota_mark_app_valid_cancel_rollback() == ESP_OK
CommitPrefs(p, pending, markOk) ==
    IF pending /\ markOk
    THEN PutInt(PutInt(p, "boot_count", 0), "val_stage", -1)
    ELSE p

\* commit_firmware_if_pending(): the image states afterwards
CommitTrust(t, r, pending, markOk) ==
    IF pending /\ markOk THEN [t EXCEPT ![r] = "Trusted"] ELSE t

\* reset_boot_counter_for_new_firmware(): the namespace afterwards
ResetPrefs(p) == PutInt(PutInt(p, "boot_count", 0), "val_stage", -1)

\* variant of Incremented: the count advances by two
IncrementedTwice(p) == GetInt(p, "boot_count", 0) + 2

\* boot_count++ in check_boot_loop()
Incremented(p) == GetInt(p, "boot_count", 0) + 1

\* variant of ThresholdReached: only the third boot counts
ThresholdReachedOnce(count) == count = BOOT_LOOP_THRESHOLD

\* variant of ThresholdReached: the comparison is strict
ThresholdReachedLate(count) == count > BOOT_LOOP_THRESHOLD

\* if (boot_count >= 3)
ThresholdReached(count) == count >= BOOT_LOOP_THRESHOLD

\* the candidate check_boot_loop() hands to esp_ota_set_boot_partition()
RollbackCandidate(r) == GetNextUpdatePartition(r)

\* variant of CheckBootLoopPrefs: line 48 also runs after a switch that succeeded
CheckBootLoopPrefsNoReset(p, switchOk) == PutInt(p, "boot_count", Incremented(p))

\* variant of CheckBootLoopPrefs: the count is reset whatever the switch returned
CheckBootLoopPrefsAlwaysReset(p, switchOk) ==
    IF ThresholdReached(Incremented(p))
    THEN PutInt(p, "boot_count", 0)
    ELSE PutInt(p, "boot_count", Incremented(p))

\* the namespace check_boot_loop() leaves behind: 0 after a switch that succeeded
\* (it restarts before line 48), the incremented count otherwise
CheckBootLoopPrefs(p, switchOk) ==
    IF ThresholdReached(Incremented(p)) /\ switchOk
    THEN PutInt(p, "boot_count", 0)
    ELSE PutInt(p, "boot_count", Incremented(p))

\* the log after log_event() was called for each record of evs in turn
RECURSIVE LogAll(_, _, _, _)
LogAll(fsys, f, evs, wOk) ==
    IF evs = <<>> THEN f
    ELSE LogAll(fsys, LogEvent(fsys, f, Head(evs), wOk).file, Tail(evs), wOk)

\* the records check_boot_loop() hands to log_event(), in order
CheckBootLoopEvents(p, switchOk) ==
    IF ThresholdReached(Incremented(p))
    THEN << Event("BOOT_LOOP_DETECTED", TRUE), Event("ROLLBACK_TRIGGERED", TRUE),
            IF switchOk THEN Event("ROLLBACK_SUCCESS", TRUE)
            ELSE Event("ROLLBACK_FAILED", TRUE) >>
    ELSE <<>>

\* the record commit_firmware_if_pending() hands to log_event(), if any
CommitEvents(pending, markOk) ==
    IF ~pending THEN <<>>
    ELSE IF markOk THEN << Event("FIRMWARE_COMMITTED", TRUE) >>
    ELSE << Event("FIRMWARE_COMMIT_FAIL", TRUE) >>

Messages(evs) == [i \in 1..Len(evs) |-> evs[i].msg]

----------------------------------------------------------------------------
(* Actions *)

\* check_boot_loop(), first call of setup(); switchOk: esp_ota_set_boot_partition() == ESP_OK
CheckBootLoop(switchOk, wOk) ==
    /\ pc = "boot"
    /\ Incremented(prefs) <= MaxBoot
    /\ LET count == Incremented(prefs)
           reached == ThresholdReached(count)
           evs == CheckBootLoopEvents(prefs, switchOk)
           target == IF reached /\ switchOk THEN RollbackCandidate(running) ELSE bootTarget
       IN  /\ prefs' = CheckBootLoopPrefs(prefs, switchOk)
           /\ logFile' = LogAll(fs, logFile, evs, wOk)
           /\ Len(logFile'.events) <= MaxLog
           /\ bootTarget' = target
           \* ESP.restart() after a switch that succeeded: the bootloader starts the target
           /\ running' = IF reached /\ switchOk THEN target ELSE running
           /\ pc' = IF reached /\ switchOk THEN "boot" ELSE "validate"
           /\ last' = Did("check_boot_loop", TRUE, Messages(evs),
                          IF reached THEN Outcome(switchOk) ELSE "none", reached /\ switchOk)
           /\ streak' = IF reached /\ switchOk THEN 0 ELSE streak + 1
           /\ completed' = IF reached /\ switchOk THEN FALSE ELSE completed
    /\ UNCHANGED <<trust, fs>>

\* validate_boot_partition(), second call of setup()
ValidateBootPartition(now) ==
    /\ pc = "validate"
    /\ prefs' = ValidatePrefs(prefs, trust, running, now)
    /\ pc' = "init"
    /\ last' = Did("validate_boot_partition", TRUE, <<>>, "none", FALSE)
    /\ UNCHANGED <<running, bootTarget, trust, fs, logFile, streak, completed>>

\* setup() from error_handler_init() to nonceManager.begin(): init_event_logger(), then
\* one record about the peripherals (allOff: PeripheralKiller::checkAllDisabled())
SetupInit(allOff, wOk) ==
    /\ pc = "init"
    /\ LET started == InitEventLogger(fs, logFile, wOk)
           e == IF allOff THEN Event("PERIPHERALS_DISABLED", TRUE)
                ELSE Event("PERIPHERAL_DISABLE_FAIL", TRUE)
       IN  /\ fs' = started.fs
           /\ logFile' = LogEvent(started.fs, started.file, e, wOk).file
           /\ Len(logFile'.events) <= MaxLog
           /\ last' = Did("init_event_logger", started.ok, <<e.msg>>, "none", FALSE)
    /\ pc' = "wifi"
    /\ UNCHANGED <<prefs, running, bootTarget, trust, streak, completed>>

\* if (!wifi_init()) { log_event("WIFI_INIT_FAIL", ...); delay; ESP.restart(); }
WifiInit(ok, wOk) ==
    /\ pc = "wifi"
    /\ IF ok
       THEN /\ pc' = "cp1"
            /\ last' = Did("wifi_init", TRUE, <<>>, "none", FALSE)
            /\ UNCHANGED <<logFile, running>>
       ELSE /\ logFile' = LogEvent(fs, logFile, Event("WIFI_INIT_FAIL", TRUE), wOk).file
            /\ Len(logFile'.events) <= MaxLog
            /\ pc' = "boot"
            /\ running' = bootTarget
            /\ last' = Did("wifi_init", FALSE, <<"WIFI_INIT_FAIL">>, "none", TRUE)
    /\ UNCHANGED <<prefs, bootTarget, trust, fs, streak, completed>>

\* mark_validation_checkpoint(1), (2), (3) as setup() calls them
MarkValidationCheckpoint(stage) ==
    /\ pc = CASE stage = 1 -> "cp1" [] stage = 2 -> "cp2" [] OTHER -> "cp3"
    /\ prefs' = MarkCheckpoint(prefs, stage)
    /\ pc' = CASE stage = 1 -> "config" [] stage = 2 -> "api" [] OTHER -> "loop"
    /\ last' = DidWith("mark_validation_checkpoint", stage)
    /\ UNCHANGED <<running, bootTarget, trust, fs, logFile, streak, completed>>

\* if (!config_manager_init()) log_event("CONFIG_INIT_FAIL", ...), setup() continues
ConfigInit(ok, wOk) ==
    /\ pc = "config"
    /\ logFile' = IF ok THEN logFile
                  ELSE LogEvent(fs, logFile, Event("CONFIG_INIT_FAIL", TRUE), wOk).file
    /\ Len(logFile'.events) <= MaxLog
    /\ pc' = "cp2"
    /\ last' = Did("config_manager_init", ok, IF ok THEN <<>> ELSE <<"CONFIG_INIT_FAIL">>,
                   "none", FALSE)
    /\ UNCHANGED <<prefs, running, bootTarget, trust, fs, streak, completed>>

\* if (!api_init()) log_event("API_INIT_FAIL", ...), setup() continues
ApiInit(ok, wOk) ==
    /\ pc = "api"
    /\ logFile' = IF ok THEN logFile
                  ELSE LogEvent(fs, logFile, Event("API_INIT_FAIL", TRUE), wOk).file
    /\ Len(logFile'.events) <= MaxLog
    /\ pc' = "cp3"
    /\ last' = Did("api_init", ok, IF ok THEN <<>> ELSE <<"API_INIT_FAIL">>, "none", FALSE)
    /\ UNCHANGED <<prefs, running, bootTarget, trust, fs, streak, completed>>

\* commit_firmware_if_pending(), called by the upload task after a successful upload;
\* markOk: esp_ota_mark_app_valid_cancel_rollback() == ESP_OK
CommitFirmwareIfPending(markOk, wOk) ==
    /\ pc = "loop"
    /\ LET pending == CommitPending(trust, running)
           evs == CommitEvents(pending, markOk)
       IN  /\ trust' = CommitTrust(trust, running, pending, markOk)
           /\ logFile' = LogAll(fs, logFile, evs, wOk)
           /\ Len(logFile'.events) <= MaxLog
           /\ prefs' = CommitPrefs(prefs, pending, markOk)
           /\ last' = Did("commit_firmware_if_pending", pending /\ markOk, Messages(evs),
                          IF pending THEN Outcome(markOk) ELSE "none", FALSE)
           /\ streak' = IF pending /\ markOk THEN 0 ELSE streak
           /\ completed' = ~(pending /\ markOk)
    /\ UNCHANGED <<running, bootTarget, fs, pc>>

\* reset_boot_counter_for_new_firmware(), called by the update flow before it restarts
ResetBootCounterForNewFirmware ==
    /\ pc = "loop"
    /\ prefs' = ResetPrefs(prefs)
    /\ pc' = "fota"
    /\ last' = Did("reset_boot_counter_for_new_firmware", TRUE, <<>>, "none", FALSE)
    /\ streak' = 0
    /\ completed' = FALSE
    /\ UNCHANGED <<running, bootTarget, trust, fs, logFile>>

\* the update flow after the reset: the image written to the other slot becomes the
\* boot target, enters PENDING_VERIFY and the device restarts into it
FotaRestart ==
    /\ pc = "fota"
    /\ LET new == GetNextUpdatePartition(running)
       IN  /\ trust' = [trust EXCEPT ![new] = "PendingVerification"]
           /\ bootTarget' = new
           /\ running' = new
    /\ pc' = "boot"
    /\ last' = Did("fota_restart", TRUE, <<>>, "none", TRUE)
    /\ UNCHANGED <<prefs, fs, logFile, streak, completed>>

\* clear_all_events(), called by the upload collaborator after a confirmed transfer
ClearLog(wOk) ==
    /\ pc = "loop"
    /\ logFile.kind # "missing"
    /\ LET r == ClearAllEvents(fs, logFile, wOk)
       IN  /\ logFile' = r.file
           /\ last' = Did("clear_all_events", r.ok, <<>>, "none", FALSE)
    /\ UNCHANGED <<prefs, running, bootTarget, trust, fs, pc, streak, completed>>

\* power loss or reset at any point between two calls: setup() starts again
PowerCycle ==
    /\ pc # "boot"
    /\ pc' = "boot"
    /\ running' = bootTarget
    /\ last' = Did("power_cycle", TRUE, <<>>, "none", FALSE)
    /\ UNCHANGED <<prefs, bootTarget, trust, fs, logFile, streak, completed>>

----------------------------------------------------------------------------
(* Spec: the boot-validation state machine from a device whose NVS namespace is     *)
(* empty, over every sequence of boots, resets and updates.  The log storage does   *)
(* not mount (the degraded mode of setup(): "continue without event logging"), so   *)
(* every log_event() call is made and fails.                                        *)

Init ==
    /\ prefs = NoPrefs
    /\ running = "app0"
    /\ bootTarget = "app0"
    /\ trust \in [Slots -> TrustStates \ {"PendingVerification"}]
    /\ trust["app0"] \in {"Trusted", "Unknown", "Unreadable"}
    /\ fs = "dead"
    /\ logFile = MissingFile
    /\ pc = "boot"
    /\ last = Did("power_on", TRUE, <<>>, "none", FALSE)
    /\ streak = 0
    /\ completed = FALSE

Next ==
    \/ \E switchOk \in BOOLEAN, wOk \in BOOLEAN : CheckBootLoop(switchOk, wOk)
    \/ \E now \in 0..MaxMillis : ValidateBootPartition(now)
    \/ \E allOff \in BOOLEAN, wOk \in BOOLEAN : SetupInit(allOff, wOk)
    \/ \E ok \in BOOLEAN, wOk \in BOOLEAN : WifiInit(ok, wOk)
    \/ \E stage \in 1..3 : MarkValidationCheckpoint(stage)
    \/ \E ok \in BOOLEAN, wOk \in BOOLEAN : ConfigInit(ok, wOk)
    \/ \E ok \in BOOLEAN, wOk \in BOOLEAN : ApiInit(ok, wOk)
    \/ \E markOk \in BOOLEAN, wOk \in BOOLEAN : CommitFirmwareIfPending(markOk, wOk)
    \/ ResetBootCounterForNewFirmware
    \/ FotaRestart
    \/ PowerCycle

Spec == Init /\ [][Next]_vars

----------------------------------------------------------------------------
(* SpecLogged: boots of a device whose log storage works, from the states a boot can *)
(* start in: a stored count below the threshold, the sequencer absent, disabled or   *)
(* enabled, the running image in any state, and a log file that is missing, corrupt, *)
(* blank or holds one record.                                                        *)

SampledPrefs ==
    {[k \in {"boot_count", "val_stage"} |-> IF k = "boot_count" THEN b ELSE -1] :
        b \in 0..(BOOT_LOOP_THRESHOLD - 1)}
    \cup {[k \in {"boot_count", "val_stage", "val_start"} |->
             IF k = "boot_count" THEN b ELSE IF k = "val_stage" THEN v ELSE 0] :
          b \in 0..(BOOT_LOOP_THRESHOLD - 1), v \in {0, 3}}

SampledStores ==
    { <<"unformatted", MissingFile>>, <<"ok", MissingFile>>, <<"ok", CorruptFile>>,
      <<"ok", BlankFile>>, <<"ok", JsonFile(<< Event("WIFI_INIT_FAIL", TRUE) >>)>> }

InitLogged ==
    /\ running = "app0"
    /\ bootTarget = "app0"
    /\ trust \in [Slots -> TrustStates]
    /\ trust["app1"] \in {"Trusted", "Aborted"}
    /\ \/ prefs = NoPrefs /\ trust["app0"] \in {"Trusted", "Unknown", "Unreadable"}
       \/ prefs \in SampledPrefs
    /\ \E st \in SampledStores : fs = st[1] /\ logFile = st[2]
    /\ pc = "boot"
    /\ last = Did("power_on", TRUE, <<>>, "none", FALSE)
    /\ streak = GetInt(prefs, "boot_count", 0)
    /\ completed = FALSE

NextLogged ==
    \/ \E switchOk \in BOOLEAN, wOk \in BOOLEAN : CheckBootLoop(switchOk, wOk)
    \/ \E now \in 0..MaxMillis : ValidateBootPartition(now)
    \/ \E allOff \in BOOLEAN, wOk \in BOOLEAN : SetupInit(allOff, wOk)
    \/ \E ok \in BOOLEAN, wOk \in BOOLEAN : WifiInit(ok, wOk)
    \/ \E stage \in 1..3 : MarkValidationCheckpoint(stage)
    \/ \E ok \in BOOLEAN, wOk \in BOOLEAN : ConfigInit(ok, wOk)
    \/ \E ok \in BOOLEAN, wOk \in BOOLEAN : ApiInit(ok, wOk)
    \/ \E markOk \in BOOLEAN, wOk \in BOOLEAN : CommitFirmwareIfPending(markOk, wOk)
    \/ \E wOk \in BOOLEAN : ClearLog(wOk)

SpecLogged == InitLogged /\ [][NextLogged]_vars

----------------------------------------------------------------------------
(* Properties *)

Pending == "PendingVerification"
CheckedBootLoop == "check_boot_loop"
Committed == "commit_firmware_if_pending"
PreUpdateReset == "reset_boot_counter_for_new_firmware"

LastMessage(f) == f.events[Len(f.events)].msg

\* C1: a check_boot_loop() call whose incremented count reaches 3 requests the
\* partition switch in that call, whether the switch then succeeds or fails; a call
\* whose incremented count is below 3 requests no switch, does not restart and leaves
\* the boot target and the running image alone.
C1_SwitchRequestedAtThreshold ==
    [][ last'.op = CheckedBootLoop =>
          /\ (BootCount + 1 >= 3) => last'.ext \in {"ok", "failed"}
          /\ (BootCount + 1 < 3) =>
                /\ last'.ext = "none"
                /\ ~last'.restart
                /\ bootTarget' = bootTarget
                /\ running' = running
                /\ pc' = "validate" ]_vars

C1_Witness ==
    /\ last.op = CheckedBootLoop
    /\ last.ext = "failed"
    /\ BootCount = 3

\* C2: after the N-th consecutive check_boot_loop() since the counter was absent or
\* reset (N < 3) the stored boot_count is N and that call requested no switch and did
\* not restart; an absent counter is stored as 1 by the first call.
C2_CountEqualsBoots ==
    (last.op = CheckedBootLoop /\ streak \in 1..2) =>
        /\ "boot_count" \in DOMAIN prefs
        /\ prefs["boot_count"] = streak
        /\ last.ext = "none"
        /\ ~last.restart

C2_Witness ==
    /\ last.op = CheckedBootLoop
    /\ streak = 2
    /\ BootCount = 2
    /\ pc = "validate"

RolledBack == last.op = CheckedBootLoop /\ last.ext = "ok"

\* C3: when check_boot_loop() reaches the threshold and the switch succeeds, the
\* stored boot_count is 0 when the restart is requested, the restart always happens,
\* nothing else of that boot runs (the next step is the next boot's check_boot_loop()),
\* and that next check_boot_loop() stores boot_count = 1.
C3_RestartAfterRollback ==
    /\ [](RolledBack =>
            /\ "boot_count" \in DOMAIN prefs
            /\ prefs["boot_count"] = 0
            /\ last.restart
            /\ pc = "boot"
            /\ running = bootTarget)
    /\ [][ RolledBack =>
            /\ last'.op = CheckedBootLoop
            /\ last'.ext = "none"
            /\ prefs'["boot_count"] = 1 ]_vars

C3_Witness ==
    /\ RolledBack
    /\ last.restart
    /\ BootCount = 0
    /\ running = "app1"

\* C4: when check_boot_loop() reaches the threshold and the switch fails, it hands
\* ROLLBACK_FAILED to the log (the newest record of a log that took it), stores the
\* incremented count, does not restart, leaves the boot target and the running image
\* alone and setup() goes on to validate_boot_partition().
C4_FailedRollbackContinues ==
    [][ (last'.op = CheckedBootLoop /\ last'.ext = "failed") =>
          /\ last'.emitted = <<"BOOT_LOOP_DETECTED", "ROLLBACK_TRIGGERED", "ROLLBACK_FAILED">>
          /\ (logFile' # logFile /\ logFile'.events # <<>>) =>
                LastMessage(logFile') = "ROLLBACK_FAILED"
          /\ "boot_count" \in DOMAIN prefs'
          /\ prefs'["boot_count"] = BootCount + 1
          /\ prefs'["boot_count"] >= 3
          /\ ~last'.restart
          /\ bootTarget' = bootTarget
          /\ running' = running
          /\ pc' = "validate" ]_vars

C4_Witness ==
    /\ last.op = CheckedBootLoop
    /\ last.ext = "failed"
    /\ BootCount = 3
    /\ pc = "validate"
    /\ logFile.events # <<>>
    /\ LastMessage(logFile) = "ROLLBACK_FAILED"

\* C5: commit_firmware_if_pending() on a PendingVerification image whose
\* mark-trusted operation succeeds returns true, hands FIRMWARE_COMMITTED to the log,
\* and leaves boot_count = 0, val_stage = -1 and the running image Trusted.
C5_CommitSucceeds ==
    [][ (last'.op = Committed /\ trust[running] = Pending /\ last'.ext = "ok") =>
          /\ last'.ret
          /\ last'.emitted = <<"FIRMWARE_COMMITTED">>
          /\ (logFile' # logFile /\ logFile'.events # <<>>) =>
                LastMessage(logFile') = "FIRMWARE_COMMITTED"
          /\ {"boot_count", "val_stage"} \subseteq DOMAIN prefs'
          /\ prefs'["boot_count"] = 0
          /\ prefs'["val_stage"] = -1
          /\ trust'[running'] = "Trusted" ]_vars

C5_Witness ==
    /\ last.op = Committed
    /\ last.ret
    /\ trust[running] = "Trusted"
    /\ BootCount = 0
    /\ ValStage = -1
    /\ logFile.events # <<>>
    /\ LastMessage(logFile) = "FIRMWARE_COMMITTED"

\* C6: commit_firmware_if_pending() on a PendingVerification image whose
\* mark-trusted operation fails returns false, hands FIRMWARE_COMMIT_FAIL to the log,
\* leaves boot_count, val_stage and val_start as they were, and the image is still
\* PendingVerification with the device in its main loop, where the next call can
\* commit it.
C6_CommitFails ==
    [][ (last'.op = Committed /\ trust[running] = Pending /\ last'.ext = "failed") =>
          /\ ~last'.ret
          /\ last'.emitted = <<"FIRMWARE_COMMIT_FAIL">>
          /\ prefs' = prefs
          /\ trust' = trust
          /\ running' = running
          /\ trust'[running'] = Pending
          /\ pc' = "loop" ]_vars

C6_Witness ==
    /\ last.op = Committed
    /\ last.ext = "failed"
    /\ ~last.ret
    /\ trust[running] = Pending
    /\ BootCount >= 1
    /\ ValStage = 3

\* C7: commit_firmware_if_pending() on an image in any state other than
\* PendingVerification (Trusted, Fresh, Rejected, Aborted, Unknown or unreadable)
\* returns false, calls neither the partition manager nor log_event(), and leaves
\* the namespace, the image states, the boot target and the log file unchanged; so
\* does a second call right after a commit that succeeded.
C7_CommitNoOp ==
    [][ (last'.op = Committed /\ trust[running] # Pending) =>
          /\ ~last'.ret
          /\ last'.ext = "none"
          /\ last'.emitted = <<>>
          /\ UNCHANGED <<prefs, trust, bootTarget, running, fs, logFile>> ]_vars

C7_Witness ==
    /\ last.op = Committed
    /\ ~last.ret
    /\ last.ext = "none"
    /\ trust[running] = "Trusted"
    /\ BootCount = 0
    /\ ValStage = -1
    /\ logFile.events # <<>>
    /\ LastMessage(logFile) = "FIRMWARE_COMMITTED"

\* C8 as stated: the stored boot_count decreases only in a step that is a rollback
\* that succeeded or a commit that succeeded.
C8_OnlyRollbackOrCommitResets ==
    [][ BootCount' < BootCount =>
          \/ last'.op = CheckedBootLoop /\ last'.ext = "ok"
          \/ last'.op = Committed /\ last'.ext = "ok" ]_vars

\* C8: the stored boot_count decreases only in a step that is a rollback that
\* succeeded, a commit that succeeded or reset_boot_counter_for_new_firmware(), and
\* then it becomes 0.
C8_OnlyRollbackCommitOrResetResets ==
    [][ BootCount' < BootCount =>
          /\ BootCount' = 0
          /\ \/ last'.op = CheckedBootLoop /\ last'.ext = "ok"
             \/ last'.op = Committed /\ last'.ext = "ok"
             \/ last'.op = PreUpdateReset ]_vars

C8_Witness ==
    /\ last.op = PreUpdateReset
    /\ BootCount = 0
    /\ streak = 0
    /\ trust[running] # Pending
    /\ pc = "fota"

\* C9: in every reachable state, a running image that is not PendingVerification has
\* the validation stage disabled (-1, or never written).
C9_StageDisabledUnlessPending ==
    trust[running] # Pending => ValStage = -1

\* C10: a rollback by check_boot_loop() that switches the boot target switches it to
\* an image that is Trusted, and never from a Trusted running image to one that is
\* PendingVerification, Fresh, Rejected or Aborted.
C10_RollbackToKnownGood ==
    [][ (last'.op = CheckedBootLoop /\ last'.ext = "ok") =>
          /\ trust[bootTarget'] = "Trusted"
          /\ ~(/\ trust[running] = "Trusted"
               /\ trust[bootTarget'] \in {Pending, "Fresh", "Rejected", "Aborted"}) ]_vars

\* C11: in every boot in which check_boot_loop() requests a partition switch, none of
\* the boots since boot_count was last 0 completed successfully, i.e. none of them ran
\* setup() to the end and reached a successful upload (which calls
\* commit_firmware_if_pending()).
C11_SwitchOnlyAfterFailedBoots ==
    [][ (last'.op = CheckedBootLoop /\ last'.ext # "none") => ~completed ]_vars

----------------------------------------------------------------------------
(* SpecFaulty: the boot machine of Spec when every image that is still            *)
(* PendingVerification is faulty: it resets somewhere after check_boot_loop() and   *)
(* before an upload succeeds, so it never commits and never installs an update, and *)
(* esp_ota_set_boot_partition() succeeds.  The device keeps being powered, which is  *)
(* the fairness condition.                                                          *)

NextFaulty ==
    \/ \E wOk \in BOOLEAN : CheckBootLoop(TRUE, wOk)
    \/ \E now \in 0..MaxMillis : ValidateBootPartition(now)
    \/ \E allOff \in BOOLEAN, wOk \in BOOLEAN : SetupInit(allOff, wOk)
    \/ \E ok \in BOOLEAN, wOk \in BOOLEAN : WifiInit(ok, wOk)
    \/ \E stage \in 1..3 : MarkValidationCheckpoint(stage)
    \/ \E ok \in BOOLEAN, wOk \in BOOLEAN : ConfigInit(ok, wOk)
    \/ \E ok \in BOOLEAN, wOk \in BOOLEAN : ApiInit(ok, wOk)
    \/ PowerCycle
    \/ /\ trust[running] # "PendingVerification"
       /\ \E markOk \in BOOLEAN, wOk \in BOOLEAN : CommitFirmwareIfPending(markOk, wOk)
    \/ /\ trust[running] # "PendingVerification"
       /\ ResetBootCounterForNewFirmware
    \/ FotaRestart

SpecFaulty == Init /\ [][NextFaulty]_vars /\ WF_vars(NextFaulty)

\* C12: a newly installed image (boot_count reset to 0 before the restart into it)
\* that resets on every boot after check_boot_loop() and before any commit, with
\* esp_ota_set_boot_partition() succeeding, eventually has the boot target switched
\* to the other image and the device restarted into it with boot_count 0; the switch
\* happens in the third check_boot_loop() call since the installation.
C12_FaultyImageRolledBack ==
    /\ [][ (RolledBack' /\ trust[running] = Pending) => streak = 2 ]_vars
    /\ \A s \in Slots :
         (last.op = "fota_restart" /\ running = s)
           ~> (/\ RolledBack
               /\ last.restart
               /\ running = GetNextUpdatePartition(s)
               /\ bootTarget = running
               /\ BootCount = 0)

C12_Witness ==
    /\ RolledBack
    /\ last.restart
    /\ trust[GetNextUpdatePartition(running)] = Pending
    /\ trust[running] = "Trusted"
    /\ BootCount = 0
    /\ pc = "boot"

----------------------------------------------------------------------------
(* SpecPowerLoss: the boot machine of Spec when power can also be lost inside      *)
(* check_boot_loop(), between two of its statements.                                *)

PowerLost == "power_loss_in_check_boot_loop"

\* the statements of check_boot_loop() after boot_count++, in order: the three
\* log_event() calls and esp_ota_set_boot_partition() of the threshold path, then the
\* putInt() of line 36 or line 48
AfterIncrement == 0
AfterDetectedEvent == 1
AfterTriggeredEvent == 2
AfterSwitch == 3
AfterResultEvent == 4
AfterPutInt == 5

\* the first n elements of a sequence
FirstN(seq, n) == SubSeq(seq, 1, IF n < Len(seq) THEN n ELSE Len(seq))

\* the records handed to log_event() when the call has run up to cut point k
EventsBefore(evs, k) ==
    FirstN(evs, CASE k = AfterIncrement -> 0
                  [] k = AfterDetectedEvent -> 1
                  [] k \in {AfterTriggeredEvent, AfterSwitch} -> 2
                  [] OTHER -> 3)

\* check_boot_loop() run up to cut point k, where power is lost; the bootloader then
\* starts the boot target
CheckBootLoopCut(k, switchOk, wOk) ==
    /\ pc = "boot"
    /\ Incremented(prefs) <= MaxBoot
    /\ LET count == Incremented(prefs)
           reached == ThresholdReached(count)
           evs == EventsBefore(CheckBootLoopEvents(prefs, switchOk), k)
           switched == reached /\ k >= AfterSwitch /\ switchOk
           stored == k = AfterPutInt
       IN  /\ reached \/ k \in {AfterIncrement, AfterPutInt}
           /\ prefs' = IF stored THEN CheckBootLoopPrefs(prefs, switchOk) ELSE prefs
           /\ logFile' = LogAll(fs, logFile, evs, wOk)
           /\ Len(logFile'.events) <= MaxLog
           /\ bootTarget' = IF switched THEN RollbackCandidate(running) ELSE bootTarget
           /\ running' = bootTarget'
           /\ pc' = "boot"
           /\ last' = [Did(PowerLost, FALSE, Messages(evs),
                           IF reached /\ k >= AfterSwitch THEN Outcome(switchOk) ELSE "none",
                           FALSE) EXCEPT !.arg = k]
           /\ streak' = IF ~stored THEN streak ELSE IF switched THEN 0 ELSE streak + 1
           /\ completed' = IF stored /\ switched THEN FALSE ELSE completed
    /\ UNCHANGED <<trust, fs>>

NextPowerLoss ==
    \/ Next
    \/ \E k \in AfterIncrement..AfterPutInt, switchOk \in BOOLEAN, wOk \in BOOLEAN :
         CheckBootLoopCut(k, switchOk, wOk)

SpecPowerLoss == Init /\ [][NextPowerLoss]_vars

\* C13: when power is lost at any point inside check_boot_loop() after the increment,
\* the stored boot_count already equals the incremented value, or 0 after a completed
\* rollback reset; it never is the value read at the start of the call.
C13_IncrementDurableBeforeAnythingElse ==
    [][ last'.op = PowerLost =>
          \/ BootCount' = Incremented(prefs)
          \/ /\ BootCount' = 0
             /\ last'.arg = AfterPutInt
             /\ last'.ext = "ok" ]_vars

----------------------------------------------------------------------------
(* Validation sequencer *)

Validated == "validate_boot_partition"
Marked == "mark_validation_checkpoint"

\* what the namespace holds under a key: <<v>>, or << >> when the key is absent
Stored(p, key) == IF key \in DOMAIN p THEN <<p[key]>> ELSE << >>

\* C14: validate_boot_partition() sets val_stage to 0 and records val_start exactly
\* when the running image is PendingVerification; for every other state, readable or
\* not, it leaves boot_count, val_stage and val_start as they were; boot_count is
\* never modified.
C14_ValidateStartsOnlyWhenPending ==
    [][ last'.op = Validated =>
          /\ Stored(prefs', "boot_count") = Stored(prefs, "boot_count")
          /\ IF trust[running] = Pending
             THEN /\ Stored(prefs', "val_stage") = <<0>>
                  /\ Stored(prefs', "val_start") \in {<<now>> : now \in 0..MaxMillis}
             ELSE prefs' = prefs ]_vars

C14_Witness ==
    /\ last.op = Validated
    /\ trust[running] = Pending
    /\ Stored(prefs, "val_stage") = <<0>>
    /\ Stored(prefs, "val_start") = <<MaxMillis>>
    /\ BootCount = 1
    /\ pc = "init"

(* SpecMarks: the boot machine of Spec when mark_validation_checkpoint() is also    *)
(* called, once setup() is through, with any stage argument.                        *)

\* mark_validation_checkpoint(stage) called outside setup()
MarkCheckpointCall(stage) ==
    /\ pc = "loop"
    /\ prefs' = MarkCheckpoint(prefs, stage)
    /\ last' = DidWith("mark_validation_checkpoint", stage)
    /\ UNCHANGED <<running, bootTarget, trust, fs, logFile, pc, streak, completed>>

NextMarks ==
    \/ Next
    \/ \E stage \in -1..MaxStage : MarkCheckpointCall(stage)

SpecMarks == Init /\ [][NextMarks]_vars

\* C15: while the stored val_stage is absent or negative, mark_validation_checkpoint()
\* leaves the namespace unchanged for every stage argument; the stored stage goes from
\* disabled to enabled only in a validate_boot_partition() call that observes the
\* running image as PendingVerification.
C15_MarkNoOpWhileDisabled ==
    [][ /\ (last'.op = Marked /\ ValStage < 0) => prefs' = prefs
        /\ (ValStage < 0 /\ ValStage' >= 0) =>
             (last'.op = Validated /\ trust[running] = Pending) ]_vars

C15_Witness ==
    /\ last.op = Marked
    /\ last.arg = MaxStage
    /\ Stored(prefs, "val_stage") = << >>
    /\ BootCount = 2
    /\ trust[running] = "Trusted"
    /\ pc = "loop"

\* C16: while the stored val_stage is 0 or more, mark_validation_checkpoint(s) stores
\* exactly s whatever the stored stage was (a lower s overwrites a higher stage), and
\* leaves boot_count and val_start as they were.
C16_MarkStoresArgument ==
    [][ (last'.op = Marked /\ ValStage >= 0) =>
          /\ Stored(prefs', "val_stage") = <<last'.arg>>
          /\ Stored(prefs', "boot_count") = Stored(prefs, "boot_count")
          /\ Stored(prefs', "val_start") = Stored(prefs, "val_start") ]_vars

C16_Witness ==
    /\ last.op = Marked
    /\ last.arg = 0
    /\ ValStage = 0
    /\ BootCount = 1
    /\ trust[running] = Pending
    /\ pc = "loop"

----------------------------------------------------------------------------
(* SpecLog: the event logger on its own, called in any order once setup() is        *)
(* through, on a mounted file system, with short records and one long one.          *)

Logged == "log_event"
Cleaned == "cleanup_old_events"
Started == "init_event_logger"

\* the records handed to log_event(): two short ones, with and without a context,
\* and one whose message is MaxMessageLen bytes long
LogInputs ==
    { Event("SHORT_WITH_CONTEXT", TRUE), Event("SHORT", FALSE),
      [msg |-> "LONG", ctx |-> FALSE, len |-> MaxMessageLen] }

InputNamed(m) == CHOOSE e \in LogInputs : e.msg = m

\* SPIFFS.open(path, FILE_WRITE) in a call: the file opens, or it does not
Opens == 1
Refused == 0
OpenForWrite(wOk) == IF wOk THEN Opens ELSE Refused

\* log_event(message, context) called directly
LogEventCall(e, wOk) ==
    /\ pc = "loop"
    /\ LET r == LogEvent(fs, logFile, e, wOk)
       IN  /\ logFile' = r.file
           /\ last' = [Did("log_event", r.ok, <<e.msg>>, "none", FALSE)
                         EXCEPT !.arg = OpenForWrite(wOk)]
    /\ UNCHANGED <<prefs, running, bootTarget, trust, fs, pc, streak, completed>>

\* cleanup_old_events() called directly
CleanupCall(wOk) ==
    /\ pc = "loop"
    /\ logFile' = CleanupOldEvents(logFile, wOk)
    /\ last' = Did("cleanup_old_events", CleanupOk(logFile, wOk), <<>>, "none", FALSE)
    /\ UNCHANGED <<prefs, running, bootTarget, trust, fs, pc, streak, completed>>

\* get_event_count() called directly; the count is reported in last.arg
GetEventCountCall ==
    /\ pc = "loop"
    /\ last' = DidWith("get_event_count", GetEventCount(logFile))
    /\ UNCHANGED <<prefs, running, bootTarget, trust, fs, logFile, pc, streak, completed>>

\* init_event_logger() called again
InitLoggerCall(wOk) ==
    /\ pc = "loop"
    /\ LET started == InitEventLogger(fs, logFile, wOk)
       IN  /\ fs' = started.fs
           /\ logFile' = started.file
           /\ last' = [Did("init_event_logger", started.ok, <<>>, "none", FALSE)
                         EXCEPT !.arg = OpenForWrite(wOk)]
    /\ UNCHANGED <<prefs, running, bootTarget, trust, pc, streak, completed>>

InitLog ==
    /\ prefs = NoPrefs
    /\ running = "app0"
    /\ bootTarget = "app0"
    /\ trust = [s \in Slots |-> "Trusted"]
    /\ fs = "ok"
    /\ logFile \in {MissingFile, CorruptFile, BlankFile}
    /\ pc = "loop"
    /\ last = Did("power_on", TRUE, <<>>, "none", FALSE)
    /\ streak = 0
    /\ completed = FALSE

NextLog ==
    \/ \E e \in LogInputs, wOk \in BOOLEAN :
         Len(logFile.events) < MaxRecords /\ LogEventCall(e, wOk)
    \/ \E wOk \in BOOLEAN : CleanupCall(wOk)
    \/ \E wOk \in BOOLEAN : InitLoggerCall(wOk)
    \/ \E wOk \in BOOLEAN : ClearLog(wOk)
    \/ GetEventCountCall

SpecLog == InitLog /\ [][NextLog]_vars

WithinBound(f) == GetLogFileSize(f) <= EVENT_LOG_MAX_SIZE_BYTES

Smaller(a, b) == IF a < b THEN a ELSE b

\* the newest k records of a log, oldest first (all of them when it holds fewer)
Newest(ev, k) == SubSeq(ev, Len(ev) - Smaller(k, Len(ev)) + 1, Len(ev))

\* the records cleanup_old_events() reads in a step: the stored ones when it is called
\* directly, the stored ones and the appended one when log_event() calls it
ReadBy(op, f, emitted) ==
    IF op = Logged THEN Append(f.events, InputNamed(emitted[1])) ELSE f.events

\* C17: after every log_event() or cleanup_old_events() call returns, the log is
\* within EVENT_LOG_MAX_SIZE_BYTES or holds at most 5 records.
C17_WithinBoundOrAtFloor ==
    [][ last'.op \in {Logged, Cleaned} =>
          \/ WithinBound(logFile')
          \/ Len(logFile'.events) <= MIN_KEPT_EVENTS ]_vars

C19_CleanupKeepsNewestTarget ==
    [][ LET read == ReadBy(last'.op, logFile, last'.emitted)
        IN  (/\ last'.op \in {Logged, Cleaned}
             /\ last'.ret
             /\ ~WithinBound(JsonFile(read))) =>
              /\ Len(logFile'.events) = TargetCount(Len(read))
              /\ logFile'.events = Newest(read, TargetCount(Len(read))) ]_vars

\* C20: the number of records after cleanup_old_events() is at least min(5, n) for a
\* log of n records, also when log_event() (after appending, so n counts the new
\* record) or init_event_logger() calls it.
C20_CleanupKeepsFloor ==
    [][ /\ last'.op \in {Cleaned, Started} =>
             Len(logFile'.events) >= Smaller(MIN_KEPT_EVENTS, Len(logFile.events))
        /\ (last'.op = Logged /\ last'.ret) =>
             Len(logFile'.events) >= Smaller(MIN_KEPT_EVENTS, Len(logFile.events) + 1) ]_vars

C20_Witness ==
    /\ last.op = Cleaned
    /\ last.ret
    /\ ~WithinBound(logFile)
    /\ Len(logFile.events) = MIN_KEPT_EVENTS
    /\ logFile.events[MIN_KEPT_EVENTS].msg = "SHORT"

\* the records of a sequence that are not null entries, in order
RECURSIVE Records(_)
Records(ev) ==
    IF ev = <<>> THEN <<>>
    ELSE IF Head(ev).msg = "null" THEN Records(Tail(ev))
    ELSE <<Head(ev)>> \o Records(Tail(ev))

\* all but the last element
Front(ev) == SubSeq(ev, 1, Len(ev) - 1)

\* C21: after a log_event(message, context) call that returns true, the last element
\* of what read_all_events() returns is the record made from message and context
\* (ctx present exactly when the context is not empty), also when the append was
\* followed by compaction; the records kept from before precede it, and they are the
\* newest ones in their original order.
C21_AppendedRecordIsLast ==
    [][ (last'.op = Logged /\ last'.ret) =>
          LET out == ReadAllEvents(logFile').events
              kept == Records(Front(out))
          IN  /\ Len(out) >= 1
              /\ out[Len(out)] = InputNamed(last'.emitted[1])
              /\ kept = Newest(logFile.events, Len(kept)) ]_vars

C21_Witness ==
    /\ last.op = Logged
    /\ last.ret
    /\ last.emitted = <<"LONG">>
    /\ Len(ReadAllEvents(logFile).events) = MaxRecords \div 2
    /\ ReadAllEvents(logFile).events[1].msg = "SHORT"
    /\ ReadAllEvents(logFile).events[2].msg = "SHORT_WITH_CONTEXT"
    /\ LastMessage(ReadAllEvents(logFile)) = "LONG"

Counted == "get_event_count"

Cleared == "clear_all_events"

\* C23: after clear_all_events(), whatever it returns, the log file exists: it holds
\* the empty collection when the call returns true and the complete previous content
\* when it returns false; it is never missing.
C23_ClearIsAtomic ==
    [][ last'.op = Cleared =>
          /\ logFile'.kind # "missing"
          /\ IF last'.ret THEN logFile' = BlankFile ELSE logFile' = logFile ]_vars

----------------------------------------------------------------------------
(* SpecLogDeep: the event logger of SpecLog with a log deep enough for compaction   *)
(* to leave more than twice the floor of 5 records; to reach that depth there is    *)
(* one short record and the long one.                                               *)

DeepInputs == { e \in LogInputs : e.msg \in {"SHORT_WITH_CONTEXT", "LONG"} }

NextLogDeep ==
    \/ \E e \in DeepInputs, wOk \in BOOLEAN :
         Len(logFile.events) < MaxDeepRecords /\ LogEventCall(e, wOk)
    \/ \E wOk \in BOOLEAN : CleanupCall(wOk)
    \/ \E wOk \in BOOLEAN : InitLoggerCall(wOk)
    \/ GetEventCountCall

SpecLogDeep == InitLog /\ [][NextLogDeep]_vars

\* C24: init_event_logger() creates the empty collection exactly when the log file
\* does not exist, leaves an existing file that is within the size bound as it is,
\* compacts one that is over the bound, and a second call in a row changes nothing
\* and returns what the first returned (the file opening for writing in both).
C24_InitIdempotent ==
    [][ (last'.op = Started /\ last'.arg = Opens) =>
          /\ logFile.kind = "missing" => logFile' = BlankFile
          /\ (logFile.kind # "missing" /\ WithinBound(logFile)) => logFile' = logFile
          /\ (logFile.kind # "missing" /\ ~WithinBound(logFile)) =>
               logFile' = CleanupOldEvents(logFile, TRUE)
          /\ (last.op = Started /\ last.arg = Opens) =>
               (logFile' = logFile /\ last'.ret = last.ret) ]_vars

\* the messages of the last n elements of a log
LastMessages(f, n) == [i \in 1..n |-> f.events[Len(f.events) - n + i].msg]

\* C25: after a check_boot_loop() call that reached the threshold, the stored log ends
\* with BOOT_LOOP_DETECTED, ROLLBACK_TRIGGERED and then ROLLBACK_SUCCESS when the
\* switch succeeded or ROLLBACK_FAILED when it failed, in this order, check_boot_loop()
\* being the first call of setup(), before init_event_logger().
C25_RollbackEventsStored ==
    [][ (last'.op = CheckedBootLoop /\ last'.ext # "none") =>
          /\ Len(logFile'.events) >= 3
          /\ LastMessages(logFile', 3) =
               << "BOOT_LOOP_DETECTED", "ROLLBACK_TRIGGERED",
                  IF last'.ext = "ok" THEN "ROLLBACK_SUCCESS" ELSE "ROLLBACK_FAILED" >> ]_vars

\* C26: on the path where the partition switch succeeded, boot_count = 0 is stored
\* before ROLLBACK_SUCCESS is handed to the log: when power is lost after the switch,
\* while or after the log is rewritten, the boot target is switched and the stored
\* boot_count is 0.
C26_ResetStoredBeforeSuccessEvent ==
    [][ (/\ last'.op = PowerLost
         /\ last'.ext = "ok"
         /\ last'.arg \in {AfterSwitch, AfterResultEvent}) =>
          /\ bootTarget' = RollbackCandidate(running)
          /\ BootCount' = 0 ]_vars

\* C27: what check_boot_loop() and commit_firmware_if_pending() decide, store and
\* return is a function of the stored counters, the image state and the outcome of
\* the partition operation alone: it is the same whether the log_event() calls they
\* make succeed or fail (partition not mounted, file missing, content corrupt, file
\* not opening for writing).
C27_LogFailureChangesNothing ==
    [][ /\ last'.op = CheckedBootLoop =>
             /\ last'.ext = "none" <=> BootCount + 1 < BOOT_LOOP_THRESHOLD
             /\ prefs' = PutInt(prefs, "boot_count",
                                IF last'.ext = "ok" THEN 0 ELSE BootCount + 1)
             /\ bootTarget' = IF last'.ext = "ok" THEN GetNextUpdatePartition(running)
                              ELSE bootTarget
             /\ last'.restart <=> last'.ext = "ok"
             /\ last'.ret
        /\ last'.op = Committed =>
             /\ last'.ext = "none" <=> trust[running] # Pending
             /\ prefs' = IF last'.ext = "ok"
                         THEN PutInt(PutInt(prefs, "boot_count", 0), "val_stage", -1)
                         ELSE prefs
             /\ trust' = IF last'.ext = "ok" THEN [trust EXCEPT ![running] = "Trusted"]
                         ELSE trust
             /\ last'.ret <=> last'.ext = "ok" ]_vars

C27_Witness ==
    /\ last.op = Committed
    /\ last.ret
    /\ last.emitted = <<"FIRMWARE_COMMITTED">>
    /\ logFile.kind = "missing"
    /\ fs = "ok"
    /\ trust[running] = "Trusted"
    /\ BootCount = 0
    /\ ValStage = -1

----------------------------------------------------------------------------
(* SpecTornWrites: the boot machine of Spec when power can also be lost between    *)
(* the two putInt() calls of commit_firmware_if_pending() and of                    *)
(* reset_boot_counter_for_new_firmware().                                           *)

PowerLostInCommit == "power_loss_in_commit_firmware_if_pending"
PowerLostInReset == "power_loss_in_reset_boot_counter_for_new_firmware"

\* variant of FirstWrite: the two keys are stored in one step
BothWrites(p) == PutInt(PutInt(p, "boot_count", 0), "val_stage", -1)

\* prefs.putInt("boot_count", 0), the first of the two writes
FirstWrite(p) == PutInt(p, "boot_count", 0)

\* commit_firmware_if_pending() on its successful path, run up to the point between
\* its two writes, where power is lost
CommitCut(wOk) ==
    /\ pc = "loop"
    /\ CommitPending(trust, running)
    /\ LET evs == CommitEvents(TRUE, TRUE)
       IN  /\ trust' = CommitTrust(trust, running, TRUE, TRUE)
           /\ logFile' = LogAll(fs, logFile, evs, wOk)
           /\ Len(logFile'.events) <= MaxLog
           /\ last' = Did(PowerLostInCommit, FALSE, Messages(evs), "ok", FALSE)
    /\ prefs' = FirstWrite(prefs)
    /\ pc' = "boot"
    /\ running' = bootTarget
    /\ streak' = 0
    /\ completed' = FALSE
    /\ UNCHANGED <<bootTarget, fs>>

\* reset_boot_counter_for_new_firmware() run up to the point between its two writes,
\* where power is lost
ResetCut ==
    /\ pc = "loop"
    /\ prefs' = FirstWrite(prefs)
    /\ pc' = "boot"
    /\ running' = bootTarget
    /\ last' = Did(PowerLostInReset, FALSE, <<>>, "none", FALSE)
    /\ streak' = 0
    /\ completed' = FALSE
    /\ UNCHANGED <<bootTarget, trust, fs, logFile>>

NextTornWrites ==
    \/ Next
    \/ \E wOk \in BOOLEAN : CommitCut(wOk)
    \/ ResetCut

SpecTornWrites == Init /\ [][NextTornWrites]_vars

\* C28: boot_count and val_stage are stored by two separate writes: a power loss
\* between the two writes of a successful commit_firmware_if_pending() or of
\* reset_boot_counter_for_new_firmware() leaves boot_count = 0 stored and val_stage
\* as it was, so a stored state with boot_count = 0 and val_stage >= 0 is reached.
C28_TornWriteLeavesStage ==
    [][ last'.op \in {PowerLostInCommit, PowerLostInReset} =>
          /\ Stored(prefs', "boot_count") = <<0>>
          /\ Stored(prefs', "val_stage") = Stored(prefs, "val_stage")
          /\ Stored(prefs', "val_start") = Stored(prefs, "val_start") ]_vars

C28_Witness ==
    /\ last.op = PowerLostInCommit
    /\ BootCount = 0
    /\ ValStage = 3
    /\ trust[running] = "Trusted"
    /\ pc = "boot"

\* C29: during a boot of a PendingVerification image the stored val_stage only goes
\* up, and setup() stores 1 only after wifi_init() succeeded, 2 only after
\* config_manager_init() succeeded and 3 only after api_init() succeeded.
C29_CheckpointsFollowSuccess ==
    [][ (last'.op = Marked /\ ValStage >= 0 /\ trust[running] = Pending) =>
          /\ ValStage' >= ValStage
          /\ ValStage' = 1 => (last.op = "wifi_init" /\ last.ret)
          /\ ValStage' = 2 => (last.op = "config_manager_init" /\ last.ret)
          /\ ValStage' = 3 => (last.op = "api_init" /\ last.ret) ]_vars

\* C30: cleanup_old_events() (called directly or by log_event()) never leaves more
\* elements than it read and none that it did not read: what is stored afterwards is
\* a contiguous suffix of what was stored before, also for a log over the bound that
\* holds fewer than 5 records.
C30_CleanupLeavesSuffix ==
    [][ (last'.op = Cleaned \/ (last'.op = Logged /\ last'.ret)) =>
          LET read == ReadBy(last'.op, logFile, last'.emitted)
          IN  /\ Len(logFile'.events) <= Len(read)
              /\ logFile'.events = Newest(read, Len(logFile'.events)) ]_vars

\* C31: once a rollback attempt has failed (the stored boot_count is 3 or more), the
\* stored boot_count stays at 3 or more until a commit or a pre-update reset: every
\* check_boot_loop() that follows requests the partition switch again and leaves the
\* count one higher.
C31_FailedRollbackRetriedForever ==
    [][ BootCount >= BOOT_LOOP_THRESHOLD =>
          /\ BootCount' < BOOT_LOOP_THRESHOLD => last'.op \in {Committed, PreUpdateReset}
          /\ last'.op = CheckedBootLoop =>
               (last'.ext # "none" /\ BootCount' = BootCount + 1) ]_vars

\* C31, amended: once a rollback attempt has failed, every check_boot_loop() that
\* follows requests the partition switch again; while the switch keeps failing the
\* count goes up by exactly 1 per boot, and it leaves the range of 3 or more only by
\* becoming 0, in a commit, a pre-update reset, or a later attempt whose switch
\* succeeds (which restarts the device).
C31_FailedRollbackRetriedUntilReset ==
    [][ BootCount >= BOOT_LOOP_THRESHOLD =>
          /\ BootCount' < BOOT_LOOP_THRESHOLD =>
               /\ BootCount' = 0
               /\ \/ last'.op \in {Committed, PreUpdateReset}
                  \/ last'.op = CheckedBootLoop /\ last'.ext = "ok" /\ last'.restart
          /\ last'.op = CheckedBootLoop =>
               /\ last'.ext # "none"
               /\ last'.ext = "failed" => BootCount' = BootCount + 1
               /\ last'.ext = "ok" => BootCount' = 0 ]_vars

C31_Witness ==
    /\ last.op = CheckedBootLoop
    /\ last.ext = "failed"
    /\ BootCount = BOOT_LOOP_THRESHOLD + 1
    /\ streak = BootCount
    /\ pc = "validate"

====
